---- MODULE Spec2Model ----
(***************************************************************************)
(* Model of the Socket.io chat server (src/server/server.js).              *)
(*                                                                         *)
(* Node runs every socket handler to completion on one thread, so each     *)
(* handler is one atomic action.  Strings are sequences of one-character   *)
(* strings so that trim() and slice() are computed, not assumed.           *)
(***************************************************************************)
EXTENDS Integers, Sequences, FiniteSets, TLC

(* ------------------------------------------------------------------ *)
(* JavaScript values that reach the handlers                           *)
(* ------------------------------------------------------------------ *)
Undef  == [t |-> "undefined"]
Null   == [t |-> "null"]
\* an object such as {"toString": 1, "valueOf": 1}: String(x) throws TypeError
BadObj == [t |-> "object"]
\* the acknowledgement function socket.io appends to the handler arguments
Fn     == [t |-> "function"]
Str(s) == [t |-> "string", s |-> s]
Bool(b) == [t |-> "boolean", b |-> b]

\* JavaScript truthiness, as used by `x || y`, `!x` and `if (x)`
Truthy(v) ==
  CASE v.t = "string"   -> v.s # <<>>
    [] v.t = "object"   -> TRUE
    [] v.t = "function" -> TRUE
    [] v.t = "boolean"  -> v.b
    [] OTHER            -> FALSE

\* a || b
Or(a, b) == IF Truthy(a) THEN a ELSE b

\* String(v) throws for an object that cannot be converted to a primitive
StringThrows(v) == v.t = "object"

\* String(v) for the values on which it does not throw
JsString(v) ==
  CASE v.t = "string"    -> v.s
    [] v.t = "undefined" -> <<"u","n","d","e","f","i","n","e","d">>
    [] v.t = "null"      -> <<"n","u","l","l">>
    [] v.t = "boolean"   -> IF v.b THEN <<"t","r","u","e">> ELSE <<"f","a","l","s","e">>
    [] OTHER             -> <<"f","n">>

IsSpace(ch) == ch = " "

RECURSIVE TrimStart(_)
TrimStart(s) ==
  IF s = <<>> THEN <<>>
  ELSE IF IsSpace(Head(s)) THEN TrimStart(Tail(s)) ELSE s

RECURSIVE TrimEnd(_)
TrimEnd(s) ==
  IF s = <<>> THEN <<>>
  ELSE IF IsSpace(s[Len(s)]) THEN TrimEnd(SubSeq(s, 1, Len(s) - 1)) ELSE s

\* String.prototype.trim
Trim(s) == TrimEnd(TrimStart(s))

\* String.prototype.slice(0, n)
Slice(s, n) == IF Len(s) <= n THEN s ELSE SubSeq(s, 1, n)

\* a string of n copies of ch
Rep(ch, n) == [i \in 1..n |-> ch]

(* ------------------------------------------------------------------ *)
(* Program constants and model bounds                                  *)
(* ------------------------------------------------------------------ *)
\* process.env.MAX_STORED_MESSAGES (default 200), configured small here
MAX_STORED_MESSAGES == 2
\* process.env.MAX_MESSAGE_LENGTH (default 1000), configured small here
MAX_MESSAGE_LENGTH == 2
\* .slice(0, 50) of the username
MAX_USERNAME_LENGTH == 50
\* Math.floor(Math.random() * 1000) is 0 or MaxJitter
MaxJitter == 1
\* Date.now() runs over 0..MaxClock
MaxClock == 1
\* successful send_message events of one run of the message-log specification
MaxSends == MAX_STORED_MESSAGES + 1

Anonymous == <<"A","n","o","n","y","m","o","u","s">>

\* socket ids handed out by socket.io; an id is never reused
Sockets == {<<"s","1">>, <<"s","2">>, <<"s","3">>}
\* ids are fresh names: the n-th connection gets the n-th id
SocketOrder == <<<<"s","1">>, <<"s","2">>, <<"s","3">>>>
\* room names clients use besides socket ids
RoomNames == {<<"A">>, <<"B">>}
\* every key the adapter's room map can get
AllRooms == RoomNames \cup Sockets


(* ------------------------------------------------------------------ *)
(* State                                                               *)
(* ------------------------------------------------------------------ *)
VARIABLES
  connected,    \* ids of the sockets of the namespace (live connections)
  closed,       \* ids of sockets that have disconnected
  users,        \* Map socketId -> { id, username }
  typingUsers,  \* Map socketId -> username
  data,         \* socket.data of every socket: username and room
  rooms,        \* io.sockets.adapter.rooms: room -> set of socket ids
  messages,     \* recent messages, oldest first
  now,          \* the last reading of Date.now()
  appended,     \* history: every message ever pushed, in push order
  lastJoined,   \* history: the room the socket joined last and has not left since
  lastEvent,    \* the event handled by the last step
  emits,        \* the emits of the last step, in program order
  acks          \* the calls of the ack callback made by the last step

\* the server's own state, without the history and the record of the last step
serverVars == <<connected, closed, users, typingUsers, data, rooms, messages>>

vars == <<connected, closed, users, typingUsers, data, rooms, messages, now,
          appended, lastJoined, lastEvent, emits, acks>>

NoData == [username |-> Undef, room |-> Undef]
NoMap == [k \in {} |-> Undef]

\* a set that writes the value under every key
MapSet_All(m, k, v) == [x \in (DOMAIN m) \cup {k} |-> v]

\* Map.prototype.set
MapSet(m, k, v) == [x \in (DOMAIN m) \cup {k} |-> IF x = k THEN v ELSE m[x]]
\* a delete that removes nothing
MapDelete_Keep(m, k) == m

\* Map.prototype.delete
MapDelete(m, k) == [x \in (DOMAIN m) \ {k} |-> m[x]]

\* a join that adds nobody
SocketJoin_None(rm, s, room) == rm

\* socket.join(room)
SocketJoin(rm, s, room) == [rm EXCEPT ![room] = @ \cup {s}]
\* socket.leave(room)
SocketLeave(rm, s, room) == [rm EXCEPT ![room] = @ \ {s}]
\* a closing socket that stays in its rooms
LeaveAll_Keep(rm, s) == rm

\* socket.io drops a closing socket from every room before 'disconnect' fires
LeaveAll(rm, s) == [r \in DOMAIN rm |-> rm[r] \ {s}]

\* recipients of io.emit(...)
IoEmit(conn) == conn
\* recipients of io.to(room).emit(...)
IoTo(rm, room) == rm[room]
\* recipients of socket.to(room).emit(...)
SocketTo(rm, s, room) == rm[room] \ {s}
\* recipients of socket.emit(...)
SocketEmit(s) == {s}

\* one emit: the event, its recipients and its payload (always a record)
Emit(ev, to, d) == [ev |-> ev, to |-> to, data |-> d]

AckErr(e) == [ok |-> FALSE, error |-> e]

\* if (typeof callback === 'function') callback(v)
CallAck(cb, v) == IF cb THEN <<v>> ELSE <<>>

\* Array.from(users.values())
UserList(u) == {u[k] : k \in DOMAIN u}

\* every sender called 'Anonymous'
SenderName_Anonymous(d) == Anonymous

\* socket.data.username || 'Anonymous'
SenderName(d) == JsString(Or(d.username, Str(Anonymous)))

(* ------------------------------------------------------------------ *)
(* Handler arguments.  socket.io calls a handler with the data          *)
(* arguments of the packet followed by the ack function if the client   *)
(* asked for one.  shape: "obj" an object payload, "null" a null        *)
(* payload, "none" no data argument at all.                             *)
(* ------------------------------------------------------------------ *)
\* the handler's callback parameter is a function
CbGiven(a) == a.withAck /\ a.shape # "none"
\* reading a property of the payload parameter throws
PayloadThrows(a) == a.shape = "null"
\* payload.f: the default {} and the ack function have no such property
Field(a, v) == IF a.shape = "obj" THEN v ELSE Undef
\* the first parameter of join_room / leave_room
RoomParam(a) ==
  IF a.shape = "none" THEN (IF a.withAck THEN Fn ELSE Undef) ELSE a.room

\* an event without arguments
NoArgs == [shape |-> "none", withAck |-> FALSE]

\* no handler is running: the server waits for the next event
Idle == [kind |-> "idle", sid |-> <<>>, args |-> NoArgs]

\* what a handler leaves behind when it changes nothing
Same ==
  [users |-> users, typingUsers |-> typingUsers, data |-> data, rooms |-> rooms,
   messages |-> messages, now |-> now, appended |-> appended,
   lastJoined |-> lastJoined, emits |-> <<>>, acks |-> <<>>]

Init ==
  /\ connected = {}
  /\ closed = {}
  /\ users = NoMap
  /\ typingUsers = NoMap
  /\ data = [s \in Sockets |-> NoData]
  /\ rooms = [r \in AllRooms |-> {}]
  /\ messages = <<>>
  /\ now = 0
  /\ appended = <<>>
  /\ lastJoined = [s \in Sockets |-> <<>>]
  /\ lastEvent = Idle
  /\ emits = <<>>
  /\ acks = <<>>

\* a handler's result r becomes the next state; handlers run one at a time
Apply(kind, s, a, r) ==
  /\ lastEvent = Idle
  /\ users' = r.users
  /\ typingUsers' = r.typingUsers
  /\ data' = r.data
  /\ rooms' = r.rooms
  /\ messages' = r.messages
  /\ now' = r.now
  /\ appended' = r.appended
  /\ lastJoined' = r.lastJoined
  /\ emits' = r.emits
  /\ acks' = r.acks
  /\ lastEvent' = [kind |-> kind, sid |-> s, args |-> a]

\* io.on('connection'): the socket joins the room named by its own id
Connect(s) ==
  /\ s \notin connected \cup closed
  /\ \A i \in 1..Len(SocketOrder) :
       SocketOrder[i] = s => \A k \in 1..(i - 1) : SocketOrder[k] \in connected \cup closed
  /\ connected' = connected \cup {s}
  /\ Apply("connection", s, NoArgs, [Same EXCEPT !.rooms = SocketJoin(rooms, s, s)])
  /\ UNCHANGED closed

(* ------------------------------------------------------------------ *)
(* socket.on('user_join')                                              *)
(* ------------------------------------------------------------------ *)
\* the catch block: the state reached so far stays, the ack reports the fault
ServerError(r, cb) == [r EXCEPT !.emits = <<>>, !.acks = CallAck(cb, AckErr("Server error"))]

\* String(payload.username || 'Anonymous').trim().slice(0, 50)
UserJoinName(a) ==
  Slice(Trim(JsString(Or(Field(a, a.username), Str(Anonymous)))), MAX_USERNAME_LENGTH)

UserJoinHandler(s, a) ==
  LET cb == CbGiven(a) IN
  IF PayloadThrows(a) \/ StringThrows(Or(Field(a, a.username), Str(Anonymous)))
  THEN ServerError(Same, cb)
  ELSE
    LET username == UserJoinName(a)
        stored == [Same EXCEPT
                     !.data = [data EXCEPT ![s].username = Str(username)],
                     !.users = MapSet(users, s, [id |-> s, username |-> username])]
        proom == Field(a, a.room)
    IN
    IF username = <<>>
    THEN [Same EXCEPT !.acks = CallAck(cb, AckErr("Invalid username"))]
    ELSE IF Truthy(proom) /\ StringThrows(proom)
    THEN ServerError(stored, cb)
    ELSE
      LET room == JsString(proom)
          joined ==
            IF Truthy(proom)
            THEN [stored EXCEPT
                    !.rooms = SocketJoin(rooms, s, room),
                    !.data = [stored.data EXCEPT ![s].room = Str(room)],
                    !.lastJoined = [lastJoined EXCEPT ![s] = room]]
            ELSE stored
          roomEmit ==
            IF Truthy(proom)
            THEN <<Emit("user_joined_room", SocketTo(joined.rooms, s, room),
                        [username |-> username, id |-> s, room |-> room])>>
            ELSE <<>>
      IN
      [joined EXCEPT
         !.emits = roomEmit \o
           <<Emit("user_list", IoEmit(connected), [users |-> UserList(joined.users)]),
             Emit("user_joined", IoEmit(connected), [username |-> username, id |-> s])>>,
         !.acks = CallAck(cb, [ok |-> TRUE, id |-> s])]

UserJoin(s, a) ==
  /\ s \in connected
  /\ Apply("user_join", s, a, UserJoinHandler(s, a))
  /\ UNCHANGED <<connected, closed>>

(* ------------------------------------------------------------------ *)
(* socket.on('join_room') and socket.on('leave_room')                  *)
(* ------------------------------------------------------------------ *)
\* !room || typeof room !== 'string'
InvalidRoom(room) == ~Truthy(room) \/ room.t # "string"

JoinRoomHandler(s, a) ==
  LET cb == CbGiven(a)
      proom == RoomParam(a)
  IN
  IF InvalidRoom(proom)
  THEN [Same EXCEPT !.acks = CallAck(cb, AckErr("Invalid room"))]
  ELSE
    LET room == proom.s
        joined == SocketJoin(rooms, s, room)
    IN
    [Same EXCEPT
       !.rooms = joined,
       !.data = [data EXCEPT ![s].room = Str(room)],
       !.lastJoined = [lastJoined EXCEPT ![s] = room],
       !.emits = <<Emit("user_joined_room", SocketTo(joined, s, room),
                        [username |-> SenderName(data[s]), id |-> s, room |-> room])>>,
       !.acks = CallAck(cb, [ok |-> TRUE])]

JoinRoom(s, a) ==
  /\ s \in connected
  /\ Apply("join_room", s, a, JoinRoomHandler(s, a))
  /\ UNCHANGED <<connected, closed>>

LeaveRoomHandler(s, a) ==
  LET cb == CbGiven(a)
      proom == RoomParam(a)
  IN
  IF InvalidRoom(proom)
  THEN [Same EXCEPT !.acks = CallAck(cb, AckErr("Invalid room"))]
  ELSE
    LET room == proom.s
        left == SocketLeave(rooms, s, room)
    IN
    [Same EXCEPT
       !.rooms = left,
       !.data = [data EXCEPT ![s].room = Undef],
       !.lastJoined = [lastJoined EXCEPT ![s] = IF @ = room THEN <<>> ELSE @],
       !.emits = <<Emit("user_left_room", SocketTo(left, s, room),
                        [username |-> SenderName(data[s]), id |-> s, room |-> room])>>,
       !.acks = CallAck(cb, [ok |-> TRUE])]

LeaveRoom(s, a) ==
  /\ s \in connected
  /\ Apply("leave_room", s, a, LeaveRoomHandler(s, a))
  /\ UNCHANGED <<connected, closed>>

(* ------------------------------------------------------------------ *)
(* socket.on('send_message')                                           *)
(* ------------------------------------------------------------------ *)
\* the text taken without .trim()
MessageText_NoTrim(a) == JsString(Or(Field(a, a.text), Str(<<>>)))

\* String(messageData.text || '').trim()
MessageText(a) == Trim(JsString(Or(Field(a, a.text), Str(<<>>))))

\* Date.now() + Math.floor(Math.random() * 1000)
MessageId(t, j) == t + j

\* a resolution that ignores the stored room
ResolveRoom_PayloadOnly(a, d) == Or(Field(a, a.room), Null)

\* messageData.room || socket.data.room || null
ResolveRoom(a, d) == Or(Or(Field(a, a.room), d.room), Null)

\* a full log that drops the new message (pop) instead of the oldest (shift)
StoreMessage_Pop(log, m) ==
  IF Len(log) >= MAX_STORED_MESSAGES THEN log ELSE Append(log, m)

\* messages.push(message); if (messages.length > MAX_STORED_MESSAGES) messages.shift()
StoreMessage(log, m) ==
  LET pushed == Append(log, m) IN
  IF Len(pushed) > MAX_STORED_MESSAGES THEN Tail(pushed) ELSE pushed

\* every message broadcast to all connections, whatever its room
RoomOrAll_Broadcast(rm, conn, room) == IoEmit(conn)

\* if (room) io.to(room).emit(...) else io.emit(...)
RoomOrAll(rm, conn, room) == IF Truthy(room) THEN IoTo(rm, room.s) ELSE IoEmit(conn)

SendMessageHandler(s, a, j, t) ==
  LET cb == CbGiven(a) IN
  IF PayloadThrows(a) \/ StringThrows(Or(Field(a, a.text), Str(<<>>)))
  THEN ServerError(Same, cb)
  ELSE
    LET text == MessageText(a) IN
    IF text = <<>>
    THEN [Same EXCEPT !.acks = CallAck(cb, AckErr("Empty message"))]
    ELSE IF Len(text) > MAX_MESSAGE_LENGTH
    THEN [Same EXCEPT !.acks = CallAck(cb, AckErr("Message too long"))]
    ELSE
      LET id == MessageId(t, j)
          room == ResolveRoom(a, data[s])
          message == [id |-> id, text |-> text, sender |-> SenderName(data[s]),
                      senderId |-> s, timestamp |-> t, room |-> room,
                      isPrivate |-> FALSE]
      IN
      [Same EXCEPT
         !.now = t,
         !.messages = StoreMessage(messages, message),
         !.appended = Append(appended, message),
         !.emits = <<Emit("receive_message", RoomOrAll(rooms, connected, room), message)>>,
         !.acks = CallAck(cb, [ok |-> TRUE, messageId |-> id, timestamp |-> t])]

\* t is the reading of the clock if the handler takes one; it never runs backwards
\* a run stops sending once `sends` messages have been pushed
SendMessage(s, a, j, t, sends) ==
  /\ s \in connected
  /\ t >= now
  /\ Len(SendMessageHandler(s, a, j, t).appended) <= sends
  /\ Apply("send_message", s, a, SendMessageHandler(s, a, j, t))
  /\ UNCHANGED <<connected, closed>>

(* ------------------------------------------------------------------ *)
(* socket.on('private_message')                                        *)
(* ------------------------------------------------------------------ *)
\* a socket that never leaves the recipient unchecked
HasUser_Always(u, id) == TRUE

\* users.has(to)
HasUser(u, id) == id \in DOMAIN u

\* String(payload.to || '').trim()
PrivateTo(a) == Trim(JsString(Or(Field(a, a.to), Str(<<>>))))

PrivateMessageHandler(s, a, j, t) ==
  LET cb == CbGiven(a) IN
  IF \/ PayloadThrows(a)
     \/ StringThrows(Or(Field(a, a.to), Str(<<>>)))
     \/ StringThrows(Or(Field(a, a.text), Str(<<>>)))
  THEN ServerError(Same, cb)
  ELSE
    LET to == PrivateTo(a)
        text == MessageText(a)
    IN
    IF to = <<>> \/ text = <<>>
    THEN [Same EXCEPT !.acks = CallAck(cb, AckErr("Invalid payload"))]
    ELSE IF ~HasUser(users, to)
    THEN [Same EXCEPT !.acks = CallAck(cb, AckErr("Recipient not connected"))]
    ELSE
      LET id == MessageId(t, j)
          message == [id |-> id, text |-> text, sender |-> SenderName(data[s]),
                      senderId |-> s, recipientId |-> to, timestamp |-> t,
                      isPrivate |-> TRUE]
      IN
      [Same EXCEPT
         !.now = t,
         !.emits = <<Emit("private_message", IoTo(rooms, to), message),
                     Emit("private_message", SocketEmit(s), message)>>,
         !.acks = CallAck(cb, [ok |-> TRUE, messageId |-> id, timestamp |-> t])]

PrivateMessage(s, a, j, t) ==
  /\ s \in connected
  /\ t >= now
  /\ Apply("private_message", s, a, PrivateMessageHandler(s, a, j, t))
  /\ UNCHANGED <<connected, closed>>

(* ------------------------------------------------------------------ *)
(* socket.on('typing') and socket.on('read_message')                   *)
(* ------------------------------------------------------------------ *)
\* a room's typing list that is not filtered by the room
TypingInRoom_All(rm, tu, room) == tu

\* the typing list of a room, kept by socket id: the names of the room's
\* sockets that are in typingUsers (the order of the list is not modelled)
TypingInRoom(rm, tu, room) ==
  [id \in rm[room] \cap DOMAIN tu |-> tu[id]]

TypingHandler(s, a) ==
  IF PayloadThrows(a)
  THEN Same
  ELSE
    LET isTyping == Truthy(Field(a, a.isTyping))
        room == ResolveRoom(a, data[s])
        tu == IF isTyping
              THEN MapSet(typingUsers, s, SenderName(data[s]))
              ELSE MapDelete(typingUsers, s)
    IN
    [Same EXCEPT
       !.typingUsers = tu,
       !.emits = IF Truthy(room)
                 THEN <<Emit("typing_users", IoTo(rooms, room.s),
                             [typing |-> TypingInRoom(rooms, tu, room.s)])>>
                 ELSE <<Emit("typing_users", IoEmit(connected), [typing |-> tu])>>]

Typing(s, a) ==
  /\ s \in connected
  /\ Apply("typing", s, a, TypingHandler(s, a))
  /\ UNCHANGED <<connected, closed>>

ReadMessageHandler(s, a, t) ==
  IF PayloadThrows(a) \/ ~Truthy(Field(a, a.messageId))
  THEN Same
  ELSE
    LET room == ResolveRoom(a, data[s])
        receipt == [messageId |-> a.messageId, readerId |-> s,
                    username |-> SenderName(data[s]), timestamp |-> t]
    IN
    [Same EXCEPT
       !.now = t,
       !.emits = <<Emit("message_read", RoomOrAll(rooms, connected, room), receipt)>>]

ReadMessage(s, a, t) ==
  /\ s \in connected
  /\ t >= now
  /\ Apply("read_message", s, a, ReadMessageHandler(s, a, t))
  /\ UNCHANGED <<connected, closed>>

(* ------------------------------------------------------------------ *)
(* socket.on('disconnect')                                             *)
(* ------------------------------------------------------------------ *)
DisconnectHandler(s, reason) ==
  LET conn == connected \ {s}
      u == MapDelete(users, s)
      tu == MapDelete(typingUsers, s)
      leftEmit ==
        IF s \in DOMAIN users
        THEN <<Emit("user_left", IoEmit(conn),
                    [username |-> users[s].username, id |-> s, reason |-> reason])>>
        ELSE <<>>
  IN
  [Same EXCEPT
     !.users = u,
     !.typingUsers = tu,
     !.rooms = LeaveAll(rooms, s),
     !.data = [data EXCEPT ![s] = NoData],
     !.lastJoined = [lastJoined EXCEPT ![s] = <<>>],
     !.emits = leftEmit \o
       <<Emit("user_list", IoEmit(conn), [users |-> UserList(u)]),
         Emit("typing_users", IoEmit(conn), [typing |-> tu])>>]

Disconnect(s, reason) ==
  /\ s \in connected
  /\ connected' = connected \ {s}
  /\ closed' = closed \cup {s}
  /\ Apply("disconnect", s, [reason |-> reason], DisconnectHandler(s, reason))

\* the handler returns; its emits and its ack are on their way and the server
\* waits for the next event
Return ==
  /\ lastEvent # Idle
  /\ lastEvent' = Idle
  /\ emits' = <<>>
  /\ acks' = <<>>
  /\ UNCHANGED <<connected, closed, users, typingUsers, data, rooms, messages, now,
                 appended, lastJoined>>

(* ------------------------------------------------------------------ *)
(* The events clients send                                             *)
(* ------------------------------------------------------------------ *)
Shapes == {"obj", "null", "none"}

\* 51 characters between blanks: trimmed to 51, sliced to 50
LongName == <<" ">> \o Rep("x", MAX_USERNAME_LENGTH + 1) \o <<" ">>
Blank == <<" ">>
Hi == <<" ", "h", "i", " ">>
Hey == <<"h", "e", "y">>
Al == <<"A", "l">>
Bo == <<"B", "o">>
\* a message id as a client quotes it in a read receipt
MsgId == <<"m", "1">>
RoomA == <<"A">>
RoomB == <<"B">>
\* a socket id as a client types it, with a blank in front
Padded(id) == <<" ">> \o id

\* a payload-less or null-payload event carries no fields
Bare(a) ==
  a.shape = "obj" \/ \A f \in (DOMAIN a) \ {"shape", "withAck"} : a[f] = Undef

UserJoinArgs(names, rms) ==
  {a \in [shape : Shapes, username : names \cup {Undef}, room : rms \cup {Undef},
          withAck : {TRUE}] : Bare(a)}
RoomArgs(rms) ==
  {a \in [shape : {"obj", "none"}, room : rms \cup {Undef}, withAck : {TRUE}] : Bare(a)}
SendMessageArgs(texts, rms) ==
  {a \in [shape : Shapes, text : texts \cup {Undef}, room : rms \cup {Undef},
          withAck : {TRUE}] : Bare(a)}
PrivateMessageArgs(tos, texts) ==
  {a \in [shape : Shapes, to : tos \cup {Undef}, text : texts \cup {Undef},
          withAck : {TRUE}] : Bare(a)}
TypingArgs(flags, rms) ==
  {a \in [shape : Shapes, isTyping : flags \cup {Undef}, room : rms \cup {Undef},
          withAck : {FALSE}] : Bare(a)}
ReadMessageArgs(ids, rms) ==
  {a \in [shape : Shapes, messageId : ids \cup {Undef}, room : rms \cup {Undef},
          withAck : {FALSE}] : Bare(a)}

\* the steps of the server over the events of I: the sockets that connect, the
\* arguments of every event, the jitter and clock readings, the sends of a run
NextWith(I) ==
  \/ \E s \in I.sockets : Connect(s)
  \/ \E s \in I.sockets, a \in I.userJoin : UserJoin(s, a)
  \/ \E s \in I.sockets, a \in I.joinRoom : JoinRoom(s, a)
  \/ \E s \in I.sockets, a \in I.leaveRoom : LeaveRoom(s, a)
  \/ \E s \in I.sockets, a \in I.sendMessage, j \in I.jitter, t \in I.clock :
       SendMessage(s, a, j, t, I.sends)
  \/ \E s \in I.sockets, a \in I.privateMessage, j \in I.jitter, t \in I.clock :
       PrivateMessage(s, a, j, t)
  \/ \E s \in I.sockets, a \in I.typing : Typing(s, a)
  \/ \E s \in I.sockets, a \in I.readMessage, t \in I.clock : ReadMessage(s, a, t)
  \/ \E s \in I.sockets, r \in I.reasons : Disconnect(s, r)
  \/ Return

\* the events sent as the client library sends them: one payload, one ack
WellFormed(S) == {a \in S : a.shape = "obj"}

\* every event, with the arguments that change the least
QuietEvents ==
  [sockets |-> {SocketOrder[1], SocketOrder[2], SocketOrder[3]},
   userJoin |-> WellFormed(UserJoinArgs({}, {})),
   joinRoom |-> WellFormed(RoomArgs({})),
   leaveRoom |-> WellFormed(RoomArgs({})),
   sendMessage |-> WellFormed(SendMessageArgs({}, {})),
   privateMessage |-> WellFormed(PrivateMessageArgs({}, {})),
   typing |-> WellFormed(TypingArgs({}, {})),
   readMessage |-> WellFormed(ReadMessageArgs({}, {})),
   jitter |-> {0}, clock |-> {0}, sends |-> 0,
   reasons |-> {"transport close"}]

\* acknowledgements and validation: every shape of every ack-bearing event
AckEvents ==
  [QuietEvents EXCEPT
     !.sockets = {SocketOrder[1], SocketOrder[2]},
     !.userJoin = UserJoinArgs({Str(Blank), Str(LongName)}, {Str(RoomA), BadObj}),
     !.joinRoom = RoomArgs({Str(RoomA), Str(<<>>), Null}),
     !.leaveRoom = RoomArgs({Str(RoomA), Str(<<>>), Null}),
     !.sendMessage = SendMessageArgs({Str(Blank), Str(Hi), Str(Hey), BadObj}, {}),
     !.privateMessage =
        PrivateMessageArgs({Str(Padded(SocketOrder[1])), Str(Padded(SocketOrder[2]))},
                           {Str(Blank), Str(Hi), BadObj}),
     !.sends = 1]

\* rooms: three connections joining and leaving two rooms
RoomEvents ==
  [QuietEvents EXCEPT
     !.userJoin = WellFormed(UserJoinArgs({}, {Str(RoomA)})),
     !.joinRoom = WellFormed(RoomArgs({Str(RoomA), Str(RoomB)})),
     !.leaveRoom = WellFormed(RoomArgs({Str(RoomA), Str(RoomB)}))]

\* delivery of room messages: three connections, one room
DeliveryEvents ==
  [QuietEvents EXCEPT
     !.joinRoom = WellFormed(RoomArgs({Str(RoomA)})),
     !.leaveRoom = WellFormed(RoomArgs({Str(RoomA)})),
     !.sendMessage = WellFormed(SendMessageArgs({Str(Hi)}, {Str(RoomA)})),
     !.sends = 1]

\* private messages: a room may be named like a socket id
PrivateEvents ==
  [QuietEvents EXCEPT
     !.joinRoom = WellFormed(RoomArgs({Str(RoomA), Str(SocketOrder[2])})),
     !.leaveRoom = WellFormed(RoomArgs({Str(RoomA), Str(SocketOrder[2])})),
     !.privateMessage =
        WellFormed(PrivateMessageArgs({Str(Padded(SocketOrder[2]))}, {Str(Hi)}))]

\* the message log: two connections sending up to MaxSends messages
LogEvents ==
  [QuietEvents EXCEPT
     !.sockets = {SocketOrder[1], SocketOrder[2]},
     !.sendMessage = WellFormed(SendMessageArgs({Str(Hi), Str(Padded(Hey))}, {})),
     !.privateMessage =
        WellFormed(PrivateMessageArgs({Str(Padded(SocketOrder[1]))}, {Str(Hi)})),
     !.jitter = {0, MaxJitter},
     !.clock = 0..MaxClock,
     !.sends = MaxSends]

\* identity and presence: two named connections that type, talk and leave
IdentityEvents ==
  [QuietEvents EXCEPT
     !.sockets = {SocketOrder[1], SocketOrder[2]},
     !.userJoin = WellFormed(UserJoinArgs({Str(Al), Str(Bo)}, {})),
     !.joinRoom = WellFormed(RoomArgs({Str(RoomA)})),
     !.sendMessage = WellFormed(SendMessageArgs({Str(Hi)}, {})),
     !.privateMessage =
        WellFormed(PrivateMessageArgs({Str(Padded(SocketOrder[1]))}, {Str(Hey)})),
     !.typing = WellFormed(TypingArgs({Bool(TRUE), Bool(FALSE)}, {})),
     !.sends = 1]

\* typing indicators and read receipts in and out of a room
SignalEvents ==
  [QuietEvents EXCEPT
     !.joinRoom = WellFormed(RoomArgs({Str(RoomA)})),
     !.leaveRoom = WellFormed(RoomArgs({Str(RoomA)})),
     !.typing = TypingArgs({Bool(TRUE), Bool(FALSE)}, {Str(RoomA)}),
     !.readMessage = ReadMessageArgs({Str(MsgId)}, {Str(RoomA)})]

Next == NextWith(AckEvents)
NextSignals == NextWith(SignalEvents)
NextIdentity == NextWith(IdentityEvents)
NextRooms == NextWith(RoomEvents)
NextDelivery == NextWith(DeliveryEvents)
NextPrivate == NextWith(PrivateEvents)
NextLog == NextWith(LogEvents)

Spec == Init /\ [][Next]_vars
SpecRooms == Init /\ [][NextRooms]_vars
SpecDelivery == Init /\ [][NextDelivery]_vars
SpecPrivate == Init /\ [][NextPrivate]_vars
SpecLog == Init /\ [][NextLog]_vars
SpecIdentity == Init /\ [][NextIdentity]_vars
SpecSignals == Init /\ [][NextSignals]_vars

(* ------------------------------------------------------------------ *)
(* What a step shows                                                   *)
(* ------------------------------------------------------------------ *)
AckBearing == {"user_join", "join_room", "leave_room", "send_message", "private_message"}
ChatEvents ==
  {"join_room", "leave_room", "send_message", "private_message", "typing", "read_message"}

\* connection c is sent event ev by the last step
Receives(c, ev) == \E i \in 1..Len(emits) : emits[i].ev = ev /\ c \in emits[i].to

\* the last step acknowledged success
AckedOk == Len(acks) = 1 /\ acks[1].ok
\* the last step acknowledged the failure e
AckedError(e) == acks = <<AckErr(e)>>

(* ------------------------------------------------------------------ *)
(* Claims                                                              *)
(* ------------------------------------------------------------------ *)

\* C1: every ack-bearing event sent with an ack callback has that callback
\* invoked exactly once by the handler, on every path.
C1_AckExactlyOnce ==
  (lastEvent.kind \in AckBearing /\ lastEvent.args.withAck) => Len(acks) = 1

\* C2: an event other than user_join from a connection that is not in the
\* registry changes no room membership, typing state or message log entry and
\* emits nothing to any other connection.
C2_UnidentifiedRejected ==
  [][(lastEvent'.kind \in ChatEvents /\ lastEvent'.sid \notin DOMAIN users)
       => /\ UNCHANGED <<rooms, typingUsers, messages>>
          /\ \A i \in 1..Len(emits') : emits'[i].to \subseteq {lastEvent'.sid}]_vars

\* C3: the members of every named room are exactly the live connections whose
\* last join was of that room and that have not left it or disconnected since.
C3_MembersAreLastJoiners ==
  \A R \in RoomNames : rooms[R] = {c \in connected : lastJoined[c] = R}

\* C4: every connection is a member of at most one named room.
C4_AtMostOneRoom ==
  \A c \in Sockets : Cardinality({R \in RoomNames : c \in rooms[R]}) <= 1

\* C5: when a member of room A joins another room B, the remaining members of
\* A are sent user_left_room for A naming it, and no user_joined_room for A.
C5_JoinLeavesPrevious ==
  [][\A A \in RoomNames :
       (/\ lastEvent'.kind = "join_room"
        /\ Len(acks') = 1 /\ acks'[1].ok
        /\ lastEvent'.sid \in rooms[A]
        /\ lastEvent'.args.room.s # A
        /\ rooms[A] \ {lastEvent'.sid} # {})
       => /\ \E i \in 1..Len(emits') :
               /\ emits'[i].ev = "user_left_room"
               /\ emits'[i].data.room = A
               /\ emits'[i].data.id = lastEvent'.sid
               /\ emits'[i].to = rooms[A] \ {lastEvent'.sid}
          /\ \A i \in 1..Len(emits') :
               emits'[i].ev = "user_joined_room" => emits'[i].data.room # A]_vars

\* C6: a send_message with resolved room R (the payload's room, else the
\* sender's stored room) is delivered to exactly the current members of R.
C6_RoomMessageToMembersOnly ==
  (lastEvent.kind = "send_message" /\ AckedOk) =>
    LET R == IF Truthy(lastEvent.args.room)
             THEN lastEvent.args.room
             ELSE data[lastEvent.sid].room
    IN Truthy(R) =>
         \A c \in Sockets : Receives(c, "receive_message") <=> c \in rooms[R.s]

\* a room message reached a member and passed by a live non-member
C6_Witness ==
  /\ lastEvent.kind = "send_message" /\ AckedOk
  /\ Truthy(lastEvent.args.room)
  /\ \E c, d \in connected :
       /\ c \in rooms[lastEvent.args.room.s] /\ Receives(c, "receive_message")
       /\ d \notin rooms[lastEvent.args.room.s] /\ ~Receives(d, "receive_message")

\* C7: a successful private_message from S to T is delivered to T and to S and
\* to no other connection.
C7_PrivateOnlyToPair ==
  (lastEvent.kind = "private_message" /\ AckedOk) =>
    \A c \in Sockets :
      Receives(c, "private_message")
        <=> c \in {lastEvent.sid, Trim(lastEvent.args.to.s)}

\* the private_message of the last step names a target that is not registered
UnknownTarget(e, u) ==
  /\ e.kind = "private_message"
  /\ CbGiven(e.args)
  /\ e.args.to.t = "string"
  /\ Trim(e.args.to.s) # <<>>
  /\ Trim(e.args.to.s) \notin DOMAIN u

\* C8 as claimed: a private_message to a target that is not in the registry
\* always acks 'Recipient not connected', emits nothing and changes no state.
C8_UnknownTargetAlwaysNotConnected ==
  [][UnknownTarget(lastEvent', users)
       => /\ acks' = <<AckErr("Recipient not connected")>>
          /\ emits' = <<>>
          /\ UNCHANGED serverVars]_vars

\* C8 as amended: a private_message with a text that is not blank, to a target
\* that is not in the registry, acks 'Recipient not connected', emits nothing
\* and changes no state.
C8_UnknownTargetWithText ==
  [][(/\ UnknownTarget(lastEvent', users)
      /\ lastEvent'.args.text.t = "string"
      /\ Trim(lastEvent'.args.text.s) # <<>>)
       => /\ acks' = <<AckErr("Recipient not connected")>>
          /\ emits' = <<>>
          /\ UNCHANGED serverVars]_vars

\* a private message with a text was refused for a recipient that has left
C8_Witness ==
  /\ UnknownTarget(lastEvent, users)
  /\ lastEvent.args.text.t = "string"
  /\ Trim(lastEvent.args.text.s) # <<>>
  /\ Trim(lastEvent.args.to.s) \in closed
  /\ AckedError("Recipient not connected")

\* the text of a send_message as the claim reads it: trimmed, absent as empty
ClaimedText(a) ==
  IF a.text.t = "string" THEN Trim(a.text.s) ELSE <<>>

\* C9: a send_message (a payload object, sent with an ack callback) whose
\* trimmed text is empty or longer than MAX_MESSAGE_LENGTH acks
\* 'Empty message' / 'Message too long', appends nothing to the log and
\* emits nothing.
C9_BadTextRejected ==
  [][(/\ lastEvent'.kind = "send_message"
      /\ CbGiven(lastEvent'.args)
      /\ lastEvent'.args.shape = "obj"
      /\ lastEvent'.args.text.t \in {"string", "undefined"}
      /\ \/ ClaimedText(lastEvent'.args) = <<>>
         \/ Len(ClaimedText(lastEvent'.args)) > MAX_MESSAGE_LENGTH)
       => /\ acks' = IF ClaimedText(lastEvent'.args) = <<>>
                     THEN <<AckErr("Empty message")>>
                     ELSE <<AckErr("Message too long")>>
          /\ messages' = messages
          /\ emits' = <<>>]_vars

\* a text that is too long was refused while the log held a message
C9_Witness ==
  /\ lastEvent.kind = "send_message"
  /\ lastEvent.args.text.t = "string"
  /\ Len(Trim(lastEvent.args.text.s)) > MAX_MESSAGE_LENGTH
  /\ AckedError("Message too long")
  /\ Len(messages) = 1

\* the last n entries of seq
LastN(seq, n) ==
  IF Len(seq) <= n THEN seq ELSE SubSeq(seq, Len(seq) - n + 1, Len(seq))

\* C10: the log holds at most MAX_STORED_MESSAGES entries: the most recent of
\* the messages pushed, in the order they were pushed.
C10_LogIsRecentWindow ==
  /\ Len(messages) <= MAX_STORED_MESSAGES
  /\ messages = LastN(appended, MAX_STORED_MESSAGES)

\* one message more than the log holds was pushed and the first is gone
C10_Witness ==
  /\ Len(appended) = MAX_STORED_MESSAGES + 1
  /\ Len(messages) = MAX_STORED_MESSAGES
  /\ \A i \in 1..Len(messages) : messages[i] # appended[1]

\* C11: once a connection's disconnect is processed it is in no room's member
\* set, not in the typing set and not in the roster, and no roster or typing
\* list sent from then on names it.
C11_DisconnectPurges ==
  \A s \in closed :
    /\ \A r \in AllRooms : s \notin rooms[r]
    /\ s \notin DOMAIN typingUsers
    /\ s \notin DOMAIN users
    /\ \A i \in 1..Len(emits) :
         /\ emits[i].ev = "user_list" => \A u \in emits[i].data.users : u.id # s
         /\ emits[i].ev = "typing_users" => s \notin DOMAIN emits[i].data.typing

\* a registered connection has just disconnected while another one, in a room
\* and typing, stays and is told
C11_Witness ==
  /\ lastEvent.kind = "disconnect"
  /\ lastEvent.sid \in closed
  /\ \E c \in connected :
       /\ Receives(c, "user_left") /\ Receives(c, "user_list")
       /\ c \in DOMAIN typingUsers
       /\ c \in rooms[RoomA]

\* the last step is a successful send_message for which no room is resolved
SentToAll ==
  /\ lastEvent.kind = "send_message" /\ AckedOk
  /\ ~Truthy(lastEvent.args.room)
  /\ ~Truthy(data[lastEvent.sid].room)

\* C12: a successful send_message with no payload room from a sender without
\* a stored room goes to every live connection, the sender included, with
\* room null and, for a registered sender, the registered name as sender.
C12_GlobalMessageToAll ==
  SentToAll =>
    /\ Len(emits) = 1
    /\ emits[1].ev = "receive_message"
    /\ emits[1].to = connected
    /\ lastEvent.sid \in emits[1].to
    /\ emits[1].data.room = Null
    /\ lastEvent.sid \in DOMAIN users
         => emits[1].data.sender = users[lastEvent.sid].username

\* a connection registered as Al sent a global message that reached it and
\* the other live connection, which sits in a room
C12_Witness ==
  /\ SentToAll
  /\ lastEvent.sid \in DOMAIN users
  /\ users[lastEvent.sid].username = Al
  /\ emits[1].data.sender = Al
  /\ \E c \in connected \ {lastEvent.sid} :
       Receives(c, "receive_message") /\ c \in rooms[RoomA]

\* C13: right after a successful user_join the connection has no current room
\* unless the call named one, and the roster holds exactly one entry for the
\* connection, carrying the new name.
C13_JoinWithoutRoomHasNoRoom ==
  (lastEvent.kind = "user_join" /\ AckedOk) =>
    /\ ~Truthy(lastEvent.args.room) =>
         /\ data[lastEvent.sid].room = Undef
         /\ \A R \in RoomNames : lastEvent.sid \notin rooms[R]
    /\ Cardinality({u \in UserList(users) : u.id = lastEvent.sid}) = 1
    /\ users[lastEvent.sid].username = UserJoinName(lastEvent.args)

\* the display name of a user_join as the claim reads it: missing, empty or blank
NoName(a) ==
  \/ a.username.t = "undefined"
  \/ a.username.t = "string" /\ Trim(a.username.s) = <<>>

\* C14: a user_join (a payload object, sent with an ack callback) whose name is
\* missing, empty or blank acks 'Invalid username', changes no registry entry
\* and emits nothing; a successful user_join stores a name of 1 to 50 characters.
C14_NoNameRejected ==
  [][lastEvent'.kind = "user_join" =>
       /\ (CbGiven(lastEvent'.args) /\ lastEvent'.args.shape = "obj"
             /\ NoName(lastEvent'.args))
            => /\ acks' = <<AckErr("Invalid username")>>
               /\ users' = users
               /\ emits' = <<>>
       /\ (Len(acks') = 1 /\ acks'[1].ok)
            => Len(users'[lastEvent'.sid].username) \in 1..MAX_USERNAME_LENGTH]_vars

\* C15: no two messages retained in the log have the same identifier.
C15_RetainedIdsDistinct ==
  \A i, k \in 1..Len(messages) : i # k => messages[i].id # messages[k].id

\* C16: every connection in the member set of a named room is in the registry.
C16_MembersAreRegistered ==
  \A R \in RoomNames : rooms[R] \subseteq DOMAIN users

\* the registered name of connection s differs before and after the step
Renamed(s) ==
  /\ s \in DOMAIN users /\ s \in DOMAIN users'
  /\ users'[s].username # users[s].username

\* C17 as claimed: the name recorded for a connection never changes while the
\* connection lives.
C17_NameNeverChanges ==
  [][\A s \in Sockets : ~Renamed(s)]_vars

\* C17 as amended: the name recorded for a connection changes only by a later
\* user_join of that connection, which overwrites it with its own name.
C17_NameChangesOnlyByOwnJoin ==
  [][\A s \in Sockets :
       Renamed(s) => /\ lastEvent'.kind = "user_join"
                     /\ lastEvent'.sid = s
                     /\ users'[s].username = UserJoinName(lastEvent'.args)]_vars

\* a connection that typed under one name has just re-identified under another
C17_Witness ==
  /\ lastEvent.kind = "user_join" /\ AckedOk
  /\ lastEvent.sid \in DOMAIN typingUsers
  /\ typingUsers[lastEvent.sid] = Al
  /\ users[lastEvent.sid].username = Bo
  /\ \E c \in DOMAIN users : c # lastEvent.sid

\* C18: a successful private_message appends one message, flagged private and
\* carrying the acknowledged id, to the log.
C18_PrivateMessageLogged ==
  [][(lastEvent'.kind = "private_message" /\ Len(acks') = 1 /\ acks'[1].ok)
       => /\ Len(messages') >= 1
          /\ messages'[Len(messages')].isPrivate
          /\ messages'[Len(messages')].id = acks'[1].messageId]_vars

\* C19: a private_message (sent with an ack callback) whose trimmed text is
\* longer than MAX_MESSAGE_LENGTH acks a failure and is delivered to nobody.
C19_LongPrivateTextRejected ==
  (/\ lastEvent.kind = "private_message"
   /\ CbGiven(lastEvent.args)
   /\ lastEvent.args.text.t = "string"
   /\ Len(Trim(lastEvent.args.text.s)) > MAX_MESSAGE_LENGTH)
    => /\ Len(acks) = 1 /\ ~acks[1].ok
       /\ emits = <<>>

\* C20: a successful leave_room of a room the connection is not in changes no
\* member set and leaves the connection's current room as it was.
C20_LeaveOfOtherRoomIsNoOp ==
  [][(/\ lastEvent'.kind = "leave_room"
      /\ Len(acks') = 1 /\ acks'[1].ok
      /\ lastEvent'.sid \notin rooms[lastEvent'.args.room.s])
       => /\ rooms' = rooms
          /\ data'[lastEvent'.sid].room = data[lastEvent'.sid].room]_vars

\* C21: every send_message acknowledged with success is delivered to its own
\* sender, whatever room it was addressed to.
C21_SenderReceivesOwnMessage ==
  (lastEvent.kind = "send_message" /\ AckedOk)
    => Receives(lastEvent.sid, "receive_message")

\* C26: a connection with a stored current room R is a member of room R.
C26_StoredRoomIsJoined ==
  \A c \in connected :
    Truthy(data[c].room) => c \in rooms[JsString(data[c].room)]

\* a connection in rooms A and B whose stored room is B, the one joined last
C26_Witness ==
  /\ lastEvent.kind = "join_room" /\ AckedOk
  /\ data[lastEvent.sid].room = Str(RoomB)
  /\ lastEvent.sid \in rooms[RoomA] \cap rooms[RoomB]
  /\ \E c \in connected : data[c].room = Undef /\ c \in rooms[RoomA]

\* C25: the name stored for every connection in the typing set is that
\* connection's current name in the registry.
C25_TypingNameIsCurrent ==
  \A s \in DOMAIN typingUsers :
    s \in DOMAIN users /\ typingUsers[s] = users[s].username

\* C27: whenever a step changes the registry, the same step emits to every
\* live connection a roster listing exactly the registry after the change.
C27_RegistryChangeBroadcast ==
  [][users' # users =>
       \E i \in 1..Len(emits') :
         /\ emits'[i].ev = "user_list"
         /\ emits'[i].data.users = UserList(users')
         /\ emits'[i].to = connected']_vars

\* C24: a closed connection stays closed: no later step is an event of it (its
\* disconnect included), and it never reappears in the registry, in a room's
\* member set or in the typing set.
C24_ClosedIsTerminal ==
  [][\A s \in closed :
       /\ s \in closed' /\ s \notin connected'
       /\ lastEvent'.sid # s
       /\ s \notin DOMAIN users'
       /\ s \notin DOMAIN typingUsers'
       /\ \A r \in AllRooms : s \notin rooms'[r]]_vars

\* after a connection closed, another one identified itself, joined a room and
\* has just started typing
C24_Witness ==
  /\ closed # {}
  /\ lastEvent.kind = "typing"
  /\ lastEvent.sid \in DOMAIN typingUsers
  /\ lastEvent.sid \in DOMAIN users
  /\ lastEvent.sid \in rooms[RoomA]
  /\ \A i \in 1..Len(SocketOrder) :
       SocketOrder[i] = lastEvent.sid => \E k \in 1..(i - 1) : SocketOrder[k] \in closed

\* the room an event e resolves to, given the sender's stored room: the
\* payload's room, else the stored one, else none
ResolvedRoom(e, stored) ==
  IF e.args.shape = "obj" /\ Truthy(e.args.room) THEN e.args.room ELSE stored

\* C22: a read_message without a messageId changes no state, emits nothing
\* and acks nothing; one with a messageId changes no stored state and is sent
\* to the members of the resolved room, or to all connections if there is none.
C22_ReadReceipt ==
  [][lastEvent'.kind = "read_message" =>
       LET e == lastEvent'
           R == ResolvedRoom(e, data[e.sid].room)
       IN /\ UNCHANGED serverVars
          /\ acks' = <<>>
          /\ IF e.args.shape = "obj" /\ Truthy(e.args.messageId)
             THEN /\ Len(emits') = 1
                  /\ emits'[1].ev = "message_read"
                  /\ emits'[1].data.messageId = e.args.messageId
                  /\ emits'[1].data.readerId = e.sid
                  /\ emits'[1].to = IF Truthy(R) THEN rooms[R.s] ELSE connected
             ELSE emits' = <<>>]_vars

\* a receipt without a payload room went to the reader's stored room and
\* passed by a live connection outside it
C22_Witness ==
  /\ lastEvent.kind = "read_message"
  /\ Truthy(lastEvent.args.messageId)
  /\ ~Truthy(lastEvent.args.room)
  /\ data[lastEvent.sid].room = Str(RoomA)
  /\ \E c, d \in connected \ {lastEvent.sid} :
       /\ c \in rooms[RoomA] /\ Receives(c, "message_read")
       /\ d \notin rooms[RoomA] /\ ~Receives(d, "message_read")

\* C23: the typing list of a typing event with resolved room R goes to the
\* members of R only and lists exactly the connections that are members of R
\* and in the typing set; with no room it lists the whole typing set and goes
\* to all connections.
C23_TypingListScoped ==
  (lastEvent.kind = "typing" /\ lastEvent.args.shape # "null") =>
    LET R == ResolvedRoom(lastEvent, data[lastEvent.sid].room)
        list == emits[1].data.typing
    IN /\ Len(emits) = 1
       /\ emits[1].ev = "typing_users"
       /\ \A id \in DOMAIN list : list[id] = typingUsers[id]
       /\ IF Truthy(R)
          THEN /\ emits[1].to = rooms[R.s]
               /\ DOMAIN list = rooms[R.s] \cap DOMAIN typingUsers
          ELSE /\ emits[1].to = connected
               /\ DOMAIN list = DOMAIN typingUsers

\* a typing list for room A names a typing member, leaves out a connection
\* that types outside the room and is not sent to it
C23_Witness ==
  /\ lastEvent.kind = "typing"
  /\ Len(emits) = 1
  /\ \E c, d \in connected :
       /\ c \in rooms[RoomA] /\ c \in DOMAIN emits[1].data.typing
       /\ d \notin rooms[RoomA] /\ d \in DOMAIN typingUsers
       /\ d \notin DOMAIN emits[1].data.typing
       /\ d \notin emits[1].to

====
